---- MODULE Spec2Model ----
(***************************************************************************)
(* TapEventPlugin (src/browser/eventPlugins/TapEventPlugin.js): the tap    *)
(* recognizer's module state and its one handler, extractEvents.           *)
(***************************************************************************)
EXTENDS Integers, Sequences, FiniteSets, TLC

(* ------------------------------------------------------------------ *)
(* JavaScript values that the handler computes with.                   *)
(* ------------------------------------------------------------------ *)
Num(n) == [k |-> "num", n |-> n]
NaN == [k |-> "nan", n |-> 0]
Null == [k |-> "null", n |-> 0]
Undefined == [k |-> "undefined", n |-> 0]

\* ToNumber: null is 0, undefined is NaN.
ToNumber(v) ==
  IF v.k = "null" THEN Num(0)
  ELSE IF v.k = "undefined" THEN NaN
  ELSE v

\* a - b
JsSub(a, b) ==
  LET x == ToNumber(a)
      y == ToNumber(b)
  IN IF x.k = "num" /\ y.k = "num" THEN Num(x.n - y.n) ELSE NaN

\* a + b (numbers, null and undefined only)
JsAdd(a, b) ==
  LET x == ToNumber(a)
      y == ToNumber(b)
  IN IF x.k = "num" /\ y.k = "num" THEN Num(x.n + y.n) ELSE NaN

\* Math.pow(a, 2)
JsSquare(a) == IF a.k = "num" THEN Num(a.n * a.n) ELSE NaN

\* a < n with NaN read as 0.
JsLess_NaNAsZero(a, n) ==
  LET x == ToNumber(a)
  IN IF x.k = "num" THEN x.n < n ELSE 0 < n

\* a < n for a number n: false when a is NaN.
JsLess(a, n) ==
  LET x == ToNumber(a)
  IN x.k = "num" /\ x.n < n

\* Truthiness of a value used as a condition: null, undefined, NaN and 0 are falsy.
JsTruthy(v) == v.k = "num" /\ v.n # 0

(* ------------------------------------------------------------------ *)
(* Bounds and inputs.                                                  *)
(* ------------------------------------------------------------------ *)
\* Number of events processed in one run.
MaxEvents == 3

\* Event timestamps (ms).  The differences hit each threshold exactly and
\* on both sides: 200-0 = tapDelay, 800-200 = tapMaxTime,
\* 950-200 = ignoreMouseThreshold, 950-800 is below all three.
Times == {0, 200, 800, 950}

TargetIDs == {"a", "b"}

topLevelTypes ==
  {"topMouseDown", "topMouseMove", "topMouseUp",
   "topTouchStart", "topTouchMove", "topTouchEnd", "topTouchCancel"}

\* Live scroll offsets of the viewport, read by the client-coordinate fallback.
ViewportMetrics == [currentPageScrollLeft |-> Num(3), currentPageScrollTop |-> Num(4)]

PagePayload(x, y) ==
  [touches |-> <<>>, pageX |-> x, pageY |-> y,
   clientX |-> Undefined, clientY |-> Undefined]
ClientPayload(x, y) ==
  [touches |-> <<>>, pageX |-> Undefined, pageY |-> Undefined,
   clientX |-> x, clientY |-> y]
TouchPayload(x, y) ==
  [touches |-> <<[pageX |-> x, pageY |-> y]>>, pageX |-> Undefined,
   pageY |-> Undefined, clientX |-> Undefined, clientY |-> Undefined]

\* Coordinate payloads of a native event.  Extracted page coordinates:
\* (0,0), (3,4), (6,8), (30,0) and (0,NaN); (0,0)-(6,8) is exactly
\* tapMoveThreshold apart, (0,0)-(3,4) and (3,4)-(6,8) are 5 apart.
Payloads ==
  {PagePayload(Num(0), Num(0)),
   ClientPayload(Num(0), Num(0)),
   TouchPayload(Num(6), Num(8)),
   PagePayload(Num(30), Num(0)),
   PagePayload(Num(0), Undefined)}

NativeEvent(t, p) ==
  [timeStamp |-> t, touches |-> p.touches, pageX |-> p.pageX, pageY |-> p.pageY,
   clientX |-> p.clientX, clientY |-> p.clientY]

NativeEvents == {NativeEvent(t, p) : t \in Times, p \in Payloads}

(* ------------------------------------------------------------------ *)
(* The module.                                                         *)
(* ------------------------------------------------------------------ *)
isStartish(topLevelType) == topLevelType \in {"topMouseDown", "topTouchStart"}

isEndish(topLevelType) ==
  topLevelType \in {"topMouseUp", "topTouchEnd", "topTouchCancel"}

isTouch(topLevelType) ==
  topLevelType \in {"topTouchCancel", "topTouchEnd", "topTouchStart", "topTouchMove"}

tapMoveThreshold == 10
ignoreMouseThreshold == 750
tapDelay == 200
tapMaxTime == 600

Axis ==
  [x |-> [page |-> "pageX", client |-> "clientX", envScroll |-> "currentPageScrollLeft"],
   y |-> [page |-> "pageY", client |-> "clientY", envScroll |-> "currentPageScrollTop"]]

\* The one active touch point of the payload, <<>> when there is none.
extractSingleTouch(nativeEvent) ==
  IF Len(nativeEvent.touches) > 0 THEN <<nativeEvent.touches[1]>> ELSE <<>>

getAxisCoordOfEvent(axis, nativeEvent) ==
  LET singleTouch == extractSingleTouch(nativeEvent)
  IN IF singleTouch # <<>>
       THEN singleTouch[1][axis.page]
       ELSE IF nativeEvent[axis.page] # Undefined
              THEN nativeEvent[axis.page]
              ELSE JsAdd(nativeEvent[axis.client], ViewportMetrics[axis.envScroll])

\* The sum under the square root of getDistance: the distance squared.
getDistanceSquared(coords, nativeEvent) ==
  LET pageX == getAxisCoordOfEvent(Axis.x, nativeEvent)
      pageY == getAxisCoordOfEvent(Axis.y, nativeEvent)
  IN JsAdd(JsSquare(JsSub(pageX, coords.x)), JsSquare(JsSub(pageY, coords.y)))

\* Math.pow(s, 0.5) < d for a sum of squares s: s < d * d, false when s is NaN.
SqrtLess(s, d) == JsLess(s, d * d)

\* touchWithinBoundaries with both comparisons inclusive.
touchWithinBoundaries_Inclusive(gs, nativeEvent) ==
  /\ JsLess(getDistanceSquared(gs.startCoords, nativeEvent),
            tapMoveThreshold * tapMoveThreshold + 1)
  /\ (nativeEvent.timeStamp - gs.startTime) <= tapMaxTime

\* touchWithinBoundaries reads the module's startCoords and startTime.
touchWithinBoundaries(gs, nativeEvent) ==
  /\ SqrtLess(getDistanceSquared(gs.startCoords, nativeEvent), tapMoveThreshold)
  /\ (nativeEvent.timeStamp - gs.startTime) < tapMaxTime

\* The arbitration with the touch debounce inclusive of tapDelay.
arbitrationRejects_InclusiveDelay(gs, topLevelType, nativeEvent) ==
  IF isTouch(topLevelType)
    THEN nativeEvent.timeStamp - gs.lastTapTime <= tapDelay
    ELSE /\ JsTruthy(gs.lastTouchEvent)
         /\ JsLess(JsSub(Num(nativeEvent.timeStamp), gs.lastTouchEvent), ignoreMouseThreshold)

\* The arbitration without the touch debounce.
arbitrationRejects_MouseOnly(gs, topLevelType, nativeEvent) ==
  /\ ~isTouch(topLevelType)
  /\ JsTruthy(gs.lastTouchEvent)
  /\ JsLess(JsSub(Num(nativeEvent.timeStamp), gs.lastTouchEvent), ignoreMouseThreshold)

\* The arbitration without the mouse branch.
arbitrationRejects_TouchOnly(gs, topLevelType, nativeEvent) ==
  /\ isTouch(topLevelType)
  /\ nativeEvent.timeStamp - gs.lastTapTime < tapDelay

\* Lines 131-139: the event returns null before the state machine sees it.
arbitrationRejects(gs, topLevelType, nativeEvent) ==
  IF isTouch(topLevelType)
    THEN nativeEvent.timeStamp - gs.lastTapTime < tapDelay
    ELSE /\ JsTruthy(gs.lastTouchEvent)
         /\ JsLess(JsSub(Num(nativeEvent.timeStamp), gs.lastTouchEvent), ignoreMouseThreshold)

\* The synthetic event SyntheticUIEvent.getPooled builds.
touchTap(topLevelTargetID, nativeEvent) ==
  [type |-> "touchTap", targetID |-> topLevelTargetID, timeStamp |-> nativeEvent.timeStamp]

\* recordTouch that records only the touch events the debounce admits.
recordTouch_AdmittedOnly(gs, topLevelType, nativeEvent) ==
  IF isTouch(topLevelType) /\ ~(nativeEvent.timeStamp - gs.lastTapTime < tapDelay)
    THEN [gs EXCEPT !.lastTouchEvent = Num(nativeEvent.timeStamp)]
    ELSE gs

\* recordTouch that also closes the open gesture.
recordTouch_ClosesGesture(gs, topLevelType, nativeEvent) ==
  IF isTouch(topLevelType)
    THEN [gs EXCEPT !.lastTouchEvent = Num(nativeEvent.timeStamp),
                    !.trackingTouchEvent = FALSE]
    ELSE gs

\* Lines 131-132: a touch-origin event is recorded as the last touch, admitted or not.
recordTouch(gs, topLevelType, nativeEvent) ==
  IF isTouch(topLevelType)
    THEN [gs EXCEPT !.lastTouchEvent = Num(nativeEvent.timeStamp)]
    ELSE gs

\* The start-ish branch that keeps an open gesture's start data.
startishBranch_OnlyWhenIdle(gs, topLevelTargetID, nativeEvent) ==
  IF gs.trackingTouchEvent
    THEN [gs |-> gs, event |-> <<>>]
    ELSE [gs |-> [gs EXCEPT
                    !.startCoords = [x |-> getAxisCoordOfEvent(Axis.x, nativeEvent),
                                     y |-> getAxisCoordOfEvent(Axis.y, nativeEvent)],
                    !.startTime = nativeEvent.timeStamp,
                    !.trackingTouchEvent = TRUE],
          event |-> <<>>]

\* The start-ish branch without the assignment to startTime.
startishBranch_KeepsStartTime(gs, topLevelTargetID, nativeEvent) ==
  [gs |-> [gs EXCEPT
             !.startCoords = [x |-> getAxisCoordOfEvent(Axis.x, nativeEvent),
                              y |-> getAxisCoordOfEvent(Axis.y, nativeEvent)],
             !.trackingTouchEvent = TRUE],
   event |-> <<>>]

\* Lines 142-146.
startishBranch(gs, topLevelTargetID, nativeEvent) ==
  [gs |-> [gs EXCEPT
             !.startCoords = [x |-> getAxisCoordOfEvent(Axis.x, nativeEvent),
                              y |-> getAxisCoordOfEvent(Axis.y, nativeEvent)],
             !.startTime = nativeEvent.timeStamp,
             !.trackingTouchEvent = TRUE],
   event |-> <<>>]

\* The end-ish branch without the assignment to lastTapTime.
endishBranch_StaleTapTime(gs, topLevelTargetID, nativeEvent) ==
  LET tap == gs.trackingTouchEvent /\ touchWithinBoundaries(gs, nativeEvent)
  IN [gs |-> [gs EXCEPT
                !.startCoords = [x |-> Num(0), y |-> Num(0)],
                !.trackingTouchEvent = FALSE],
      event |-> IF tap THEN <<touchTap(topLevelTargetID, nativeEvent)>> ELSE <<>>]

\* The end-ish branch that stamps lastTapTime on every end, tap or not.
endishBranch_StampsEveryEnd(gs, topLevelTargetID, nativeEvent) ==
  LET tap == gs.trackingTouchEvent /\ touchWithinBoundaries(gs, nativeEvent)
  IN [gs |-> [gs EXCEPT
                !.lastTapTime = nativeEvent.timeStamp,
                !.startCoords = [x |-> Num(0), y |-> Num(0)],
                !.trackingTouchEvent = FALSE],
      event |-> IF tap THEN <<touchTap(topLevelTargetID, nativeEvent)>> ELSE <<>>]

\* The end-ish branch without trackingTouchEvent = false.
endishBranch_KeepsTracking(gs, topLevelTargetID, nativeEvent) ==
  LET tap == gs.trackingTouchEvent /\ touchWithinBoundaries(gs, nativeEvent)
  IN [gs |-> [gs EXCEPT
                !.lastTapTime = IF tap THEN nativeEvent.timeStamp ELSE @,
                !.startCoords = [x |-> Num(0), y |-> Num(0)]],
      event |-> IF tap THEN <<touchTap(topLevelTargetID, nativeEvent)>> ELSE <<>>]

\* The end-ish branch without the reset of startCoords.
endishBranch_KeepsCoords(gs, topLevelTargetID, nativeEvent) ==
  LET tap == gs.trackingTouchEvent /\ touchWithinBoundaries(gs, nativeEvent)
  IN [gs |-> [gs EXCEPT
                !.lastTapTime = IF tap THEN nativeEvent.timeStamp ELSE @,
                !.trackingTouchEvent = FALSE],
      event |-> IF tap THEN <<touchTap(topLevelTargetID, nativeEvent)>> ELSE <<>>]

\* The end-ish branch without the test of trackingTouchEvent.
endishBranch_IgnoresTracking(gs, topLevelTargetID, nativeEvent) ==
  LET tap == touchWithinBoundaries(gs, nativeEvent)
  IN [gs |-> [gs EXCEPT
                !.lastTapTime = IF tap THEN nativeEvent.timeStamp ELSE @,
                !.startCoords = [x |-> Num(0), y |-> Num(0)],
                !.trackingTouchEvent = FALSE],
      event |-> IF tap THEN <<touchTap(topLevelTargetID, nativeEvent)>> ELSE <<>>]

\* Lines 148-160.
endishBranch(gs, topLevelTargetID, nativeEvent) ==
  LET tap == gs.trackingTouchEvent /\ touchWithinBoundaries(gs, nativeEvent)
  IN [gs |-> [gs EXCEPT
                !.lastTapTime = IF tap THEN nativeEvent.timeStamp ELSE @,
                !.startCoords = [x |-> Num(0), y |-> Num(0)],
                !.trackingTouchEvent = FALSE],
      event |-> IF tap THEN <<touchTap(topLevelTargetID, nativeEvent)>> ELSE <<>>]

\* The move-ish branch that cancels on every move.
moveishBranch_AlwaysCancels(gs, topLevelTargetID, nativeEvent) ==
  [gs |-> [gs EXCEPT !.trackingTouchEvent = FALSE], event |-> <<>>]

\* The move-ish branch without the cancellation.
moveishBranch_NeverCancels(gs, topLevelTargetID, nativeEvent) ==
  [gs |-> gs, event |-> <<>>]

\* Lines 162-167.
moveishBranch(gs, topLevelTargetID, nativeEvent) ==
  [gs |-> [gs EXCEPT
             !.trackingTouchEvent =
                IF @ /\ ~touchWithinBoundaries(gs, nativeEvent) THEN FALSE ELSE @],
   event |-> <<>>]

\* extractEvents as a function of the module state gs: the state it leaves
\* and the accumulation of events it returns (<<>> for null).
extractEvents(gs, topLevelType, topLevelTargetID, nativeEvent) ==
  LET seen == recordTouch(gs, topLevelType, nativeEvent)
  IN IF arbitrationRejects(gs, topLevelType, nativeEvent)
       THEN [gs |-> seen, event |-> <<>>]
     ELSE IF isStartish(topLevelType)
       THEN startishBranch(seen, topLevelTargetID, nativeEvent)
     ELSE IF isEndish(topLevelType)
       THEN endishBranch(seen, topLevelTargetID, nativeEvent)
     ELSE moveishBranch(seen, topLevelTargetID, nativeEvent)

(* ------------------------------------------------------------------ *)
(* State.                                                              *)
(* ------------------------------------------------------------------ *)
VARIABLES
  startCoords,         \* {x, y}
  startTime,
  lastTouchEvent,      \* null or the timestamp of the last touch-origin event
  lastTapTime,
  trackingTouchEvent,
  event,               \* what the last call of extractEvents returned
  nEvents,             \* calls of extractEvents so far
  hStep,               \* history: what the last call did
  hTouch,              \* history: the last call's event was touch-origin
  hClock,              \* history: <<t>> the last timestamp while timestamps never decreased, <<>> before the first, <<-1>> once they did
  hStart,              \* history: <<[coords, time]>> of the admitted start-ish event of the open gesture
  hCancelled,          \* history: a gate-failing move closed the gesture and no start was admitted since
  hTapsSinceStart,     \* history: taps emitted since the last admitted start-ish event
  hLastTap,            \* history: <<t>> timestamp of the last emitted tap
  hTouchTap,           \* history: <<t>> timestamp of the last tap a touch-origin event emitted
  hLastTouch           \* history: <<t>> timestamp of the last touch-origin event processed

gsVars == <<startCoords, startTime, lastTouchEvent, lastTapTime, trackingTouchEvent>>
hVars == <<hStep, hTouch, hClock, hStart, hCancelled, hTapsSinceStart, hLastTap, hTouchTap, hLastTouch>>
vars == <<gsVars, event, nEvents, hVars>>

\* The module state as one record.
GestureState ==
  [startCoords |-> startCoords, startTime |-> startTime,
   lastTouchEvent |-> lastTouchEvent, lastTapTime |-> lastTapTime,
   trackingTouchEvent |-> trackingTouchEvent]

InitialGestureState ==
  [startCoords |-> [x |-> Null, y |-> Null], startTime |-> 0,
   lastTouchEvent |-> Null, lastTapTime |-> 0, trackingTouchEvent |-> FALSE]

Init ==
  /\ startCoords = InitialGestureState.startCoords
  /\ startTime = InitialGestureState.startTime
  /\ lastTouchEvent = InitialGestureState.lastTouchEvent
  /\ lastTapTime = InitialGestureState.lastTapTime
  /\ trackingTouchEvent = InitialGestureState.trackingTouchEvent
  /\ event = <<>>
  /\ nEvents = 0
  /\ hStep = "none"
  /\ hTouch = FALSE
  /\ hClock = <<>>
  /\ hStart = <<>>
  /\ hCancelled = FALSE
  /\ hTapsSinceStart = 0
  /\ hLastTap = <<>>
  /\ hTouchTap = <<>>
  /\ hLastTouch = <<>>

\* What a call does, for the history: the branch of extractEvents it takes.
StepKind(gs, topLevelType, nativeEvent) ==
  IF arbitrationRejects(gs, topLevelType, nativeEvent) THEN "rejected"
  ELSE IF isStartish(topLevelType) THEN "start"
  ELSE IF isEndish(topLevelType)
    THEN IF ~gs.trackingTouchEvent THEN "endIdle"
         ELSE IF touchWithinBoundaries(gs, nativeEvent) THEN "endTap" ELSE "endMiss"
  ELSE IF ~gs.trackingTouchEvent THEN "moveIdle"
       ELSE IF touchWithinBoundaries(gs, nativeEvent) THEN "moveKeep" ELSE "moveCancel"

\* Timestamps never decreased so far.
Monotone == hClock # <<-1>>

ExtractEvents(topLevelType, topLevelTargetID, nativeEvent) ==
  \E r \in {extractEvents(GestureState, topLevelType, topLevelTargetID, nativeEvent)} :
  \E admitted \in {~arbitrationRejects(GestureState, topLevelType, nativeEvent)} :
  LET gs == GestureState
      t == nativeEvent.timeStamp
      \* the gate against the open gesture's own start, whatever the module holds
      hGate == /\ hStart # <<>>
               /\ touchWithinBoundaries([startCoords |-> hStart[1].coords,
                                         startTime |-> hStart[1].time], nativeEvent)
  IN /\ nEvents < MaxEvents
     /\ startCoords' = r.gs.startCoords
     /\ startTime' = r.gs.startTime
     /\ lastTouchEvent' = r.gs.lastTouchEvent
     /\ lastTapTime' = r.gs.lastTapTime
     /\ trackingTouchEvent' = r.gs.trackingTouchEvent
     /\ event' = r.event
     /\ nEvents' = nEvents + 1
     /\ hStep' = StepKind(gs, topLevelType, nativeEvent)
     /\ hTouch' = isTouch(topLevelType)
     /\ hClock' = IF hClock = <<>> THEN <<t>>
                  ELSE IF hClock # <<-1>> /\ t >= hClock[1] THEN <<t>>
                  ELSE <<-1>>
     /\ hStart' = IF ~admitted THEN hStart
                  ELSE IF isStartish(topLevelType)
                    THEN <<[coords |-> [x |-> getAxisCoordOfEvent(Axis.x, nativeEvent),
                                        y |-> getAxisCoordOfEvent(Axis.y, nativeEvent)],
                            time |-> t]>>
                  ELSE IF isEndish(topLevelType) THEN <<>>
                  ELSE IF hGate THEN hStart ELSE <<>>
     /\ hCancelled' = IF ~admitted THEN hCancelled
                      ELSE IF isStartish(topLevelType) THEN FALSE
                      ELSE IF isEndish(topLevelType) THEN hCancelled
                      ELSE IF hStart # <<>> /\ ~hGate THEN TRUE ELSE hCancelled
     /\ hTapsSinceStart' = IF admitted /\ isStartish(topLevelType) THEN 0
                           ELSE hTapsSinceStart + Len(r.event)
     /\ hLastTap' = IF r.event # <<>> THEN <<t>> ELSE hLastTap
     /\ hTouchTap' = IF r.event # <<>> /\ isTouch(topLevelType) THEN <<t>> ELSE hTouchTap
     /\ hLastTouch' = IF isTouch(topLevelType) THEN <<t>> ELSE hLastTouch

Next ==
  \E topLevelType \in topLevelTypes, topLevelTargetID \in TargetIDs,
     nativeEvent \in NativeEvents :
    ExtractEvents(topLevelType, topLevelTargetID, nativeEvent)

Spec == Init /\ [][Next]_vars

TypeOK ==
  /\ trackingTouchEvent \in BOOLEAN
  /\ startTime \in Times
  /\ lastTapTime \in Times
  /\ Len(event) <= 1
  /\ nEvents \in 0..MaxEvents

(* ------------------------------------------------------------------ *)
(* What the claims speak of, stated apart from the handler.            *)
(* ------------------------------------------------------------------ *)
\* The page coordinates of an event.
EventCoords(nativeEvent) ==
  [x |-> getAxisCoordOfEvent(Axis.x, nativeEvent),
   y |-> getAxisCoordOfEvent(Axis.y, nativeEvent)]

AllNumbers(p, q) ==
  /\ ToNumber(p.x).k = "num" /\ ToNumber(p.y).k = "num"
  /\ ToNumber(q.x).k = "num" /\ ToNumber(q.y).k = "num"

SquaredDistance(p, q) ==
  (ToNumber(q.x).n - ToNumber(p.x).n) * (ToNumber(q.x).n - ToNumber(p.x).n)
  + (ToNumber(q.y).n - ToNumber(p.y).n) * (ToNumber(q.y).n - ToNumber(p.y).n)

\* The Euclidean distance of p and q is a number below d, resp. exactly d.
EuclidLess(p, q, d) == AllNumbers(p, q) /\ SquaredDistance(p, q) < d * d
EuclidEqual(p, q, d) == AllNumbers(p, q) /\ SquaredDistance(p, q) = d * d

Origin == [x |-> Num(0), y |-> Num(0)]
\* Coordinates that count as zero: (0,0), and the nulls the module starts with.
Neutral(c) == ToNumber(c.x) = Num(0) /\ ToNumber(c.y) = Num(0)

MouseTypes == {"topMouseDown", "topMouseMove", "topMouseUp"}
EndishTypes == {"topMouseUp", "topTouchEnd", "topTouchCancel"}

\* A call of extractEvents has just been made.
Stepped == nEvents' = nEvents + 1

(* ------------------------------------------------------------------ *)
(* C1                                                                  *)
(* ------------------------------------------------------------------ *)
\* C1: from the module's initial state, a start-ish event followed at once by
\* an end-ish event of the same device kind (mouse down/up, touch start/end)
\* less than tapMoveThreshold away and not earlier but less than tapMaxTime later makes
\* extractEvents return nothing on the first call and exactly one touchTap,
\* carrying the end event's target, on the second; for every start timestamp.
C1_TapFromInitialState ==
  GestureState = InitialGestureState =>
    \A pair \in {<<"topMouseDown", "topMouseUp">>, <<"topTouchStart", "topTouchEnd">>},
       startTarget \in TargetIDs, endTarget \in TargetIDs,
       startEvent \in NativeEvents, endEvent \in NativeEvents :
      LET first == extractEvents(GestureState, pair[1], startTarget, startEvent)
          second == extractEvents(first.gs, pair[2], endTarget, endEvent)
      IN (/\ EuclidLess(EventCoords(startEvent), EventCoords(endEvent), tapMoveThreshold)
          /\ endEvent.timeStamp >= startEvent.timeStamp
          /\ endEvent.timeStamp - startEvent.timeStamp < tapMaxTime)
         => /\ first.event = <<>>
            /\ second.event = <<[type |-> "touchTap", targetID |-> endTarget,
                                 timeStamp |-> endEvent.timeStamp]>>

(* ------------------------------------------------------------------ *)
(* C2                                                                  *)
(* ------------------------------------------------------------------ *)
\* C2: in every reachable state, whatever event comes next, extractEvents
\* returns a touchTap only for an admitted end-ish event while tracking whose
\* Euclidean distance from startCoords is strictly below tapMoveThreshold and
\* whose timestamp is strictly less than tapMaxTime after startTime; at
\* distance exactly tapMoveThreshold or elapsed exactly tapMaxTime there is no
\* tap and the state is Idle afterwards.
C2_TapGatedStrictly ==
  \A topLevelType \in topLevelTypes, topLevelTargetID \in TargetIDs,
     nativeEvent \in NativeEvents :
    LET r == extractEvents(GestureState, topLevelType, topLevelTargetID, nativeEvent)
        admittedEnd == /\ ~arbitrationRejects(GestureState, topLevelType, nativeEvent)
                       /\ isEndish(topLevelType)
                       /\ trackingTouchEvent
        elapsed == nativeEvent.timeStamp - startTime
    IN /\ r.event # <<>> =>
            /\ admittedEnd
            /\ EuclidLess(startCoords, EventCoords(nativeEvent), tapMoveThreshold)
            /\ elapsed < tapMaxTime
       /\ (/\ admittedEnd
           /\ \/ EuclidEqual(startCoords, EventCoords(nativeEvent), tapMoveThreshold)
              \/ elapsed = tapMaxTime)
          => r.event = <<>> /\ ~r.gs.trackingTouchEvent

\* A tap has just been emitted.
C2_Witness == hStep = "endTap" /\ event # <<>> /\ ~trackingTouchEvent

(* ------------------------------------------------------------------ *)
(* C3                                                                  *)
(* ------------------------------------------------------------------ *)
\* C3: a call returns at most one tap, and at most one tap is emitted after
\* an admitted start-ish event until the next one is admitted (and at most one
\* before the first).
C3_OneTapPerGesture == Len(event) <= 1 /\ hTapsSinceStart <= 1

\* After a tap, another end-ish event was admitted and emitted nothing.
C3_Witness == hTapsSinceStart = 1 /\ hStep = "endIdle" /\ event = <<>>

(* ------------------------------------------------------------------ *)
(* C4                                                                  *)
(* ------------------------------------------------------------------ *)
\* C4: while timestamps have never decreased, whatever device kinds are mixed,
\* a next event (timestamp not below the last one) that emits a tap has a
\* timestamp at least tapDelay after the previous tap's.
C4_MinimumTapSpacing ==
  (Monotone /\ hLastTap # <<>>) =>
    \A topLevelType \in topLevelTypes, topLevelTargetID \in TargetIDs,
       nativeEvent \in NativeEvents :
      (/\ nativeEvent.timeStamp >= hClock[1]
       /\ extractEvents(GestureState, topLevelType, topLevelTargetID, nativeEvent).event # <<>>)
      => nativeEvent.timeStamp - hLastTap[1] >= tapDelay

(* ------------------------------------------------------------------ *)
(* C5                                                                  *)
(* ------------------------------------------------------------------ *)
\* C5: once a touch-origin event has been processed, whatever its timestamp,
\* a mouse-origin event less than ignoreMouseThreshold after the last touch
\* returns no event and changes no field of the module state.
C5_PhantomMouseSuppressed ==
  hLastTouch # <<>> =>
    \A topLevelType \in MouseTypes, topLevelTargetID \in TargetIDs,
       nativeEvent \in NativeEvents :
      nativeEvent.timeStamp - hLastTouch[1] < ignoreMouseThreshold =>
        LET r == extractEvents(GestureState, topLevelType, topLevelTargetID, nativeEvent)
        IN r.event = <<>> /\ r.gs = GestureState

C7_MoveCancelsTracking == hCancelled => (~trackingTouchEvent /\ event = <<>>)

\* After the cancelling move an end-ish event was admitted and emitted nothing.
C7_Witness == hCancelled /\ hStep = "endIdle" /\ event = <<>>

(* ------------------------------------------------------------------ *)
(* C8                                                                  *)
(* ------------------------------------------------------------------ *)
\* C8 as claimed: an admitted end-ish event in an Idle state emits no tap and
\* leaves tracking, startCoords, startTime and lastTapTime as they were, with
\* startCoords neutral before and after.
C8_IdleEndChangesNothing ==
  [][(Stepped /\ hStep' = "endIdle")
     => /\ event' = <<>>
        /\ UNCHANGED <<trackingTouchEvent, startTime, lastTapTime>>
        /\ Neutral(startCoords) /\ Neutral(startCoords')
        /\ ToNumber(startCoords'.x) = ToNumber(startCoords.x)
        /\ ToNumber(startCoords'.y) = ToNumber(startCoords.y)]_vars

\* C8 amended: an admitted end-ish event in an Idle state emits no tap, leaves
\* tracking, startTime and lastTapTime as they were and leaves startCoords at
\* (0,0); startCoords are unchanged when they were (0,0) before.
C8_IdleEndResetsCoords ==
  [][(Stepped /\ hStep' = "endIdle")
     => /\ event' = <<>>
        /\ UNCHANGED <<trackingTouchEvent, startTime, lastTapTime>>
        /\ startCoords' = Origin]_vars

\* An end-ish event was admitted in the Idle state a cancelling move left.
C8_Witness == hStep = "endIdle" /\ hCancelled /\ startCoords = Origin /\ ~trackingTouchEvent

(* ------------------------------------------------------------------ *)
(* C9                                                                  *)
(* ------------------------------------------------------------------ *)
\* C9: in every reachable Idle state an admitted end-ish event emits no tap
\* and leaves tracking false and startCoords (0,0); the same event applied
\* again leaves the same state and emits nothing.
C9_IdleEndHarmless ==
  ~trackingTouchEvent =>
    \A topLevelType \in EndishTypes, topLevelTargetID \in TargetIDs,
       nativeEvent \in NativeEvents :
      ~arbitrationRejects(GestureState, topLevelType, nativeEvent) =>
        LET once == extractEvents(GestureState, topLevelType, topLevelTargetID, nativeEvent)
            twice == extractEvents(once.gs, topLevelType, topLevelTargetID, nativeEvent)
        IN /\ once.event = <<>>
           /\ ~once.gs.trackingTouchEvent
           /\ once.gs.startCoords = Origin
           /\ ~arbitrationRejects(once.gs, topLevelType, nativeEvent)
           /\ twice.event = <<>>
           /\ twice.gs = once.gs

\* Two end-ish events in a row were admitted in Idle states.
C9_Witness == hStep = "endIdle" /\ nEvents >= 2 /\ hStart = <<>> /\ hTapsSinceStart = 0

(* ------------------------------------------------------------------ *)
(* C10                                                                 *)
(* ------------------------------------------------------------------ *)
\* C10: while tracking, startCoords and startTime are those of the most recent
\* admitted start-ish event, and no admitted end-ish event and no admitted
\* gate-failing move-ish event has been processed since it.
C10_TrackingInvariant ==
  trackingTouchEvent =>
    /\ hStart # <<>>
    /\ startCoords = hStart[1].coords
    /\ startTime = hStart[1].time

\* Still tracking after an in-bounds move.
C10_Witness == trackingTouchEvent /\ hStep = "moveKeep" /\ hStart # <<>>

(* ------------------------------------------------------------------ *)
(* C11                                                                 *)
(* ------------------------------------------------------------------ *)
\* C11: a touch-origin event whose timestamp is less than tapDelay after
\* lastTapTime is rejected: the call returns no event, sets lastTouchEvent to
\* the timestamp and leaves tracking, startCoords, startTime and lastTapTime
\* as they were; a touch-origin event at least tapDelay after lastTapTime is
\* admitted.
C11_TouchDebounce ==
  [][(Stepped /\ hTouch')
     => IF hLastTouch'[1] - lastTapTime < tapDelay
          THEN /\ hStep' = "rejected"
               /\ event' = <<>>
               /\ lastTouchEvent' = Num(hLastTouch'[1])
               /\ UNCHANGED <<trackingTouchEvent, startCoords, startTime, lastTapTime>>
          ELSE hStep' # "rejected"]_vars

\* A touch-origin event was debounced while a gesture was open.
C11_Witness ==
  /\ hStep = "rejected" /\ hTouch /\ trackingTouchEvent
  /\ hLastTouch[1] - lastTapTime < tapDelay

(* ------------------------------------------------------------------ *)
(* C12                                                                 *)
(* ------------------------------------------------------------------ *)
\* C12: after an admitted start-ish event, from Idle or from Tracking,
\* tracking is true, startCoords and startTime are the event's coordinates
\* and timestamp, lastTapTime is unchanged and the call returns no event.
C12_StartRestartsTracking ==
  [][(Stepped /\ hStep' = "start")
     => /\ trackingTouchEvent'
        /\ startCoords' = hStart'[1].coords
        /\ startTime' = hStart'[1].time
        /\ lastTapTime' = lastTapTime
        /\ event' = <<>>]_vars

\* A start-ish event was admitted after an earlier gesture had ended in a tap.
C12_Witness ==
  /\ hStep = "start" /\ trackingTouchEvent /\ hLastTap # <<>>
  /\ hTapsSinceStart = 0 /\ startTime = hStart[1].time

(* ------------------------------------------------------------------ *)
(* C14                                                                 *)
(* ------------------------------------------------------------------ *)
\* C14: an admitted move-ish event returns no event and leaves startCoords,
\* startTime and lastTapTime as they were; in an Idle state it changes nothing
\* but lastTouchEvent (for a touch move); while tracking and within the gate
\* it leaves tracking true.
C14_MoveOnlyCancels ==
  [][(Stepped /\ hStep' \in {"moveIdle", "moveKeep", "moveCancel"})
     => /\ event' = <<>>
        /\ UNCHANGED <<startCoords, startTime, lastTapTime>>
        /\ hStep' = "moveIdle" =>
             /\ ~trackingTouchEvent /\ ~trackingTouchEvent'
             /\ ~hTouch' => UNCHANGED lastTouchEvent
        /\ hStep' = "moveKeep" => trackingTouchEvent /\ trackingTouchEvent']_vars

\* An in-bounds move, after at least two earlier calls, left the gesture open.
C14_Witness ==
  /\ hStep = "moveKeep" /\ trackingTouchEvent /\ nEvents >= 3 /\ hStart # <<>>
  /\ startCoords = hStart[1].coords

(* ------------------------------------------------------------------ *)
(* C15                                                                 *)
(* ------------------------------------------------------------------ *)
\* C15: tracking turns from true to false only in a call that processes an
\* admitted end-ish event or an admitted move-ish event failing the gate;
\* rejected events, in-bounds moves and steps without a call leave it true.
C15_NoAbandonment ==
  [][(trackingTouchEvent /\ ~trackingTouchEvent')
     => (Stepped /\ hStep' \in {"endTap", "endMiss", "moveCancel"})]_vars

\* An open gesture outlived a rejected event that came more than tapMaxTime
\* after its start.
C15_Witness ==
  /\ trackingTouchEvent /\ hStep = "rejected" /\ Monotone
  /\ hClock[1] - startTime >= tapMaxTime

(* ------------------------------------------------------------------ *)
(* C13                                                                 *)
(* ------------------------------------------------------------------ *)
\* C13: while tracking, an admitted end-ish event within the gate (distance
\* below tapMoveThreshold, elapsed below tapMaxTime) returns a tap with the
\* event's target and timestamp and sets lastTapTime to that timestamp; one
\* outside the gate returns nothing and leaves lastTapTime; either way
\* tracking is false and startCoords (0,0) afterwards.
C13_EndWhileTracking ==
  trackingTouchEvent =>
    \A topLevelType \in EndishTypes, topLevelTargetID \in TargetIDs,
       nativeEvent \in NativeEvents :
      ~arbitrationRejects(GestureState, topLevelType, nativeEvent) =>
        LET r == extractEvents(GestureState, topLevelType, topLevelTargetID, nativeEvent)
            pass == /\ EuclidLess(startCoords, EventCoords(nativeEvent), tapMoveThreshold)
                    /\ nativeEvent.timeStamp - startTime < tapMaxTime
        IN /\ IF pass
                THEN /\ r.event = <<[type |-> "touchTap", targetID |-> topLevelTargetID,
                                     timeStamp |-> nativeEvent.timeStamp]>>
                     /\ r.gs.lastTapTime = nativeEvent.timeStamp
                ELSE /\ r.event = <<>>
                     /\ r.gs.lastTapTime = lastTapTime
           /\ ~r.gs.trackingTouchEvent
           /\ r.gs.startCoords = Origin

\* An end-ish event outside the gate closed the gesture without a tap.
C13_Witness ==
  /\ hStep = "endMiss" /\ event = <<>> /\ ~trackingTouchEvent /\ startCoords = Origin

(* ------------------------------------------------------------------ *)
(* C16                                                                 *)
(* ------------------------------------------------------------------ *)
\* A coordinate pair with an axis that is no number.
HasAbsent(c) == ToNumber(c.x).k # "num" \/ ToNumber(c.y).k # "num"

\* C16: while tracking, if startCoords or the coordinates of an admitted
\* end-ish or move-ish event have an absent axis, the gate is false: the call
\* returns no event and leaves tracking false (and, for an end-ish event,
\* startCoords (0,0)).
C16_AbsentCoordsDisqualify ==
  trackingTouchEvent =>
    \A topLevelType \in topLevelTypes, topLevelTargetID \in TargetIDs,
       nativeEvent \in NativeEvents :
      (/\ ~isStartish(topLevelType)
       /\ HasAbsent(startCoords) \/ HasAbsent(EventCoords(nativeEvent))
       /\ ~arbitrationRejects(GestureState, topLevelType, nativeEvent))
      => LET r == extractEvents(GestureState, topLevelType, topLevelTargetID, nativeEvent)
         IN /\ ~touchWithinBoundaries(GestureState, nativeEvent)
            /\ r.event = <<>>
            /\ ~r.gs.trackingTouchEvent
            /\ isEndish(topLevelType) => r.gs.startCoords = Origin

\* A move cancelled a gesture whose start had an absent coordinate.
C16_Witness == hStep = "moveCancel" /\ HasAbsent(startCoords) /\ ~trackingTouchEvent

(* ------------------------------------------------------------------ *)
(* C17                                                                 *)
(* ------------------------------------------------------------------ *)
\* C17: lastTouchEvent is the timestamp of the most recently processed
\* touch-origin event, admitted or rejected, and null when there was none;
\* mouse-origin events never change it.
C17_LastTouchTracksLatestTouch ==
  lastTouchEvent = IF hLastTouch = <<>> THEN Null ELSE Num(hLastTouch[1])

\* A mouse-origin call came after a touch inside the debounce window and left
\* lastTouchEvent.
C17_Witness ==
  /\ hLastTouch # <<>> /\ ~hTouch /\ hStep # "none"
  /\ hLastTouch[1] - lastTapTime < tapDelay
  /\ lastTouchEvent = Num(hLastTouch[1])

(* ------------------------------------------------------------------ *)
(* C18                                                                 *)
(* ------------------------------------------------------------------ *)
\* C18: lastTapTime is the timestamp of the most recently emitted tap, and 0
\* when no tap was emitted; a call that emits no tap leaves it.
C18_LastTapTimeWrittenByEmission ==
  /\ lastTapTime = IF hLastTap = <<>> THEN 0 ELSE hLastTap[1]
  /\ event # <<>> => event[1].timeStamp = lastTapTime

\* After a tap at a non-zero timestamp a later call emitted nothing.
C18_Witness ==
  /\ hLastTap # <<>> /\ hLastTap[1] > 0 /\ event = <<>> /\ hStep # "endTap"
  /\ lastTapTime = hLastTap[1]

====
